---- MODULE Spec2Model ----
(***************************************************************************)
(* ERA5 extraction for city lists: the point-mode batch extractor          *)
(* (scripts/extract_era5_batch.py) and the region-mode extractor           *)
(* (scripts/extract_era5_cities.py).                                       *)
(*                                                                         *)
(* Coordinates are fixed-point integers (whole degrees); a text is a       *)
(* tuple of one-character strings; a field value read from a file is an    *)
(* integer that encodes the file and the cell it was read from.            *)
(***************************************************************************)
EXTENDS Integers, Sequences, FiniteSets, TLC

VARIABLES
    argv_years,      \* --years, as typed
    argv_variables,  \* --variables
    csv,             \* rows of the city list file
    grid_lats,       \* latitude axis of the reference file
    grid_lons,       \* longitude axis of the reference file
    absent,          \* archive: patterns of source files that do not exist
    unreadable,      \* archive: patterns of source files that exist and fail on read
    unwritable,      \* ids of the cities whose artifact cannot be written
    archive,         \* region mode: the source files found under the archive root
    years,           \* main: parsed list of years
    yi,              \* main: number of years completed
    cities,          \* rows with the derived lon_360 column
    lat_idx,         \* precomputed row index per city
    lon_idx,         \* precomputed column index per city
    timestamps,      \* extract_year: time axis of the year
    data,            \* extract_year: var -> [row -> [city -> cell]]
    t_idx,           \* extract_year: next buffer row
    month,           \* extract_year: next month of the running loop
    i,               \* save loop / city loop position
    files,           \* artifacts written so far
    stdout,          \* lines printed
    pc               \* control point

vars == <<argv_years, argv_variables, csv, grid_lats, grid_lons, absent,
          unreadable, unwritable, archive, years, yi, cities, lat_idx, lon_idx,
          timestamps, data, t_idx, month, i, files, stdout, pc>>

(***************************************************************************)
(* Calendar                                                                *)
(***************************************************************************)

\* calendar.isleap, used by monthrange
isleap(year) == year % 4 = 0 /\ (year % 100 # 0 \/ year % 400 = 0)

mdays == <<31, 28, 31, 30, 31, 30, 31, 31, 30, 31, 30, 31>>

\* monthrange(year, month)[1]: the number of days of the month
monthrange(year, m) == mdays[m] + (IF m = 2 /\ isleap(year) THEN 1 ELSE 0)

\* range(1, 13)
MonthsPerYear == 12

\* range(24): the hours visited per day. The model visits HoursPerDay hours
\* of each day (hours 0..HoursPerDay-1) to keep a year's buffers small.
HoursPerDay == 2

\* datetime(year, month, day, hour)
datetime(year, m, d, h) == <<year, m, d, h>>

\* MonthTimestamps with the day loop written range(1, n_days)
MonthTimestamps_ShortRange(year, m) ==
    [k \in 1..((monthrange(year, m) - 1) * HoursPerDay) |->
        datetime(year, m, ((k - 1) \div HoursPerDay) + 1, (k - 1) % HoursPerDay)]

\* the timestamps appended while the build loop visits one month:
\* for day in range(1, n_days + 1): for hour in range(24): append
MonthTimestamps(year, m) ==
    [k \in 1..(monthrange(year, m) * HoursPerDay) |->
        datetime(year, m, ((k - 1) \div HoursPerDay) + 1, (k - 1) % HoursPerDay)]

(***************************************************************************)
(* Texts and the parsing of --years                                        *)
(***************************************************************************)

Digits == <<"0", "1", "2", "3", "4", "5", "6", "7", "8", "9">>

IsDigit(c) == \E k \in 1..10 : Digits[k] = c

DigitVal(c) == (CHOOSE k \in 1..10 : Digits[k] = c) - 1

\* "-" in s
Contains(s, c) == \E k \in 1..Len(s) : s[k] = c

RECURSIVE split(_, _)
\* s.split(sep) for a one-character separator
split(s, sep) ==
    IF ~Contains(s, sep) THEN <<s>>
    ELSE LET k == CHOOSE j \in 1..Len(s) :
                      s[j] = sep /\ \A l \in 1..(j - 1) : s[l] # sep
         IN  <<SubSeq(s, 1, k - 1)>> \o split(SubSeq(s, k + 1, Len(s)), sep)

\* int(s) succeeds on a non-empty run of decimal digits
IsInt(s) == Len(s) > 0 /\ \A k \in 1..Len(s) : IsDigit(s[k])

RECURSIVE int(_)
int(s) == IF Len(s) = 0 THEN 0
          ELSE 10 * int(SubSeq(s, 1, Len(s) - 1)) + DigitVal(s[Len(s)])

\* list(range(start, end + 1))
range(start, end) == [k \in 1..(IF end >= start THEN end - start + 1 ELSE 0) |->
                        start + k - 1]

\* main, "Parse years": the list of years; err when int() or the unpacking
\* of start, end raises ValueError
parse_years(s) ==
    IF Contains(s, "-")
    THEN LET parts == split(s, "-")
         IN  IF Len(parts) # 2 \/ ~IsInt(parts[1]) \/ ~IsInt(parts[2])
             THEN [err |-> TRUE, years |-> <<>>]
             ELSE [err |-> FALSE, years |-> range(int(parts[1]), int(parts[2]))]
    ELSE IF IsInt(s) THEN [err |-> FALSE, years |-> <<int(s)>>]
         ELSE [err |-> TRUE, years |-> <<>>]

RECURSIVE str(_)
\* decimal text of a natural number (how the inputs are typed)
str(n) == IF n < 10 THEN <<Digits[n + 1]>>
          ELSE str(n \div 10) \o <<Digits[(n % 10) + 1]>>

(***************************************************************************)
(* Cities and grid indices                                                 *)
(***************************************************************************)

\* lon_to_360 with a remainder that keeps the sign of lon (fmod)
lon_to_360_fmod(lon) == IF lon < 0 THEN -((-lon) % 360) ELSE lon % 360

\* lon % 360 with Python's sign rule (result in 0..359)
lon_to_360(lon) == lon % 360

\* load_cities: df['lon_360'] = df['lon'] % 360
load_cities(rows) ==
    [n \in 1..Len(rows) |->
        [ID_UC_G0 |-> rows[n].ID_UC_G0, city |-> rows[n].city,
         lat |-> rows[n].lat, lon |-> rows[n].lon,
         lon_360 |-> lon_to_360(rows[n].lon)]]

\* np.abs
abs(x) == IF x < 0 THEN -x ELSE x

RECURSIVE argmin_scan(_, _, _)
\* the scan of ndarray.argmin: a later element replaces the best one only
\* when it is strictly smaller
argmin_scan(a, k, best) ==
    IF k > Len(a) THEN best
    ELSE argmin_scan(a, k + 1, IF a[k] < a[best] THEN k ELSE best)

\* ndarray.argmin(): 0-based index of the first minimum
argmin(a) == argmin_scan(a, 2, 1) - 1

\* nearest without np.abs
nearest_signed(grid, x) == argmin([k \in 1..Len(grid) |-> grid[k] - x])

\* np.abs(grid - x).argmin()
nearest(grid, x) == argmin([k \in 1..Len(grid) |-> abs(grid[k] - x)])

\* precompute_indices: the two index arrays, in city order
precompute_lat_idx(cs, lats) == [n \in 1..Len(cs) |-> nearest(lats, cs[n].lat)]

precompute_lon_idx(cs, lons) == [n \in 1..Len(cs) |-> nearest(lons, cs[n].lon_360)]

(***************************************************************************)
(* The archive                                                             *)
(***************************************************************************)

\* VAR_MAP: CLI code -> netCDF variable name
VAR_MAP == [v \in {"2t", "2d", "skt", "10u", "10v", "msl", "tcwv"} |->
              CASE v = "2t" -> "t2m" [] v = "2d" -> "d2m" [] v = "skt" -> "skt"
                [] v = "10u" -> "u10" [] v = "10v" -> "v10" [] v = "msl" -> "msl"
                [] v = "tcwv" -> "tcwv"]

\* VAR_MAP.get(var, var)
VarName(var) == IF var \in DOMAIN VAR_MAP THEN VAR_MAP[var] ELSE var

\* A pattern names the files of one variable: month and day 0 and hour -1
\* stand for every month, day and hour.
Matches(p, var, m, d, h) ==
    /\ p.var = var
    /\ p.month \in {0, m}
    /\ p.day \in {0, d}
    /\ p.hour \in {-1, h}

\* fpath.exists() for ERA5_SFC/{year}/{month}/{day}/..._{year}{month}{day}{hour}00.{var}.nc
exists(var, m, d, h) == ~\E p \in absent : Matches(p, var, m, d, h)

\* nc.Dataset(fpath) or the read of its variable raises
raises(var, m, d, h) == \E p \in unreadable : Matches(p, var, m, d, h)

VarCode(var) ==
    CASE var = "2t" -> 1 [] var = "2d" -> 2 [] var = "skt" -> 3 [] var = "10u" -> 4
      [] var = "10v" -> 5 [] var = "msl" -> 6 [] var = "tcwv" -> 7 [] OTHER -> 0

\* ds.variables[name][0, r, c] of the file of (var, year, month, day, hour):
\* a positive number that identifies the file and the cell
FileField(var, year, m, d, h, r, c) ==
    ((((((year % 256) * 8 + VarCode(var)) * 13 + m) * 32 + d) * 24 + h) * 8 + r) * 8
        + c + 1

\* np.nan
NaN == -1

(***************************************************************************)
(* extract_year: the extraction loop                                       *)
(***************************************************************************)

year == years[yi + 1]

n_cities == Len(cities)

\* n_times = len(timestamps)
n_times == Len(timestamps)

\* a row index that data[var][t_idx, :] accepts (no IndexError)
InRange(t) == 0 <= t /\ t < n_times

\* VarStep with a bare "continue" for a missing file (no fill)
VarStep_NoFill(st, var, d, h) ==
    IF st.err \/ ~exists(var, month, d, h) THEN st
    ELSE IF raises(var, month, d, h) \/ ~InRange(st.t_idx)
    THEN [st EXCEPT !.err = TRUE]
    ELSE [st EXCEPT !.data[var][st.t_idx] =
                       [e \in 1..Len(cities) |->
                           FileField(var, year, month, d, h, lat_idx[e], lon_idx[e])]]

\* the body of "for var in variables" for one variable, while the loop is
\* at (year, month, d, h); st is [data, t_idx, err], err once an exception
\* has left the loop
VarStep(st, var, d, h) ==
    IF st.err THEN st
    ELSE IF ~exists(var, month, d, h)
    THEN IF ~InRange(st.t_idx)
         THEN [st EXCEPT !.err = TRUE]
         ELSE [st EXCEPT !.data[var][st.t_idx] =
                            [e \in 1..Len(cities) |-> NaN]]
    ELSE IF raises(var, month, d, h) \/ ~InRange(st.t_idx)
    THEN [st EXCEPT !.err = TRUE]
    ELSE [st EXCEPT !.data[var][st.t_idx] =
                       [e \in 1..Len(cities) |->
                           FileField(var, year, month, d, h, lat_idx[e], lon_idx[e])]]

RECURSIVE VarLoop(_, _, _, _)
\* for var in variables
VarLoop(st, k, d, h) ==
    IF st.err \/ k > Len(argv_variables) THEN st
    ELSE VarLoop(VarStep(st, argv_variables[k], d, h), k + 1, d, h)

\* HourStep where a missing file skips the rest of the hour, t_idx += 1 included
HourStep_SkipOnMissing(st, d, h) ==
    LET s1 == VarLoop(st, 1, d, h)
    IN  IF s1.err \/ \E k \in 1..Len(argv_variables) : ~exists(argv_variables[k], month, d, h)
        THEN s1
        ELSE [s1 EXCEPT !.t_idx = @ + 1]

\* the body of "for hour in range(24)": the variables, then t_idx += 1
HourStep(st, d, h) ==
    LET s1 == VarLoop(st, 1, d, h)
    IN  IF s1.err THEN s1 ELSE [s1 EXCEPT !.t_idx = @ + 1]

RECURSIVE HourLoop(_, _, _, _)
\* for hour in lo..hi, in increasing order (the range is halved to keep the
\* evaluation shallow)
HourLoop(st, d, lo, hi) ==
    IF st.err \/ lo > hi THEN st
    ELSE IF lo = hi THEN HourStep(st, d, lo)
    ELSE HourLoop(HourLoop(st, d, lo, (lo + hi) \div 2), d, ((lo + hi) \div 2) + 1, hi)

RECURSIVE DayLoop(_, _, _)
\* for day in lo..hi, in increasing order
DayLoop(st, lo, hi) ==
    IF st.err \/ lo > hi THEN st
    ELSE IF lo = hi THEN HourLoop(st, lo, 0, HoursPerDay - 1)
    ELSE DayLoop(DayLoop(st, lo, (lo + hi) \div 2), ((lo + hi) \div 2) + 1, hi)

(***************************************************************************)
(* Batch extractor: main and extract_year                                  *)
(***************************************************************************)

ParseYears ==
    /\ pc = "main"
    /\ LET r == parse_years(argv_years)
       IN  /\ years' = r.years
           /\ pc' = IF r.err THEN "ValueError" ELSE "load"
    /\ UNCHANGED <<argv_years, argv_variables, csv, grid_lats, grid_lons, absent,
                   unreadable, unwritable, archive, yi, cities, lat_idx, lon_idx,
                   timestamps, data, t_idx, month, i, files, stdout>>

LoadCities ==
    /\ pc = "load"
    /\ cities' = load_cities(csv)
    /\ pc' = "index"
    /\ UNCHANGED <<argv_years, argv_variables, csv, grid_lats, grid_lons, absent,
                   unreadable, unwritable, archive, years, yi, lat_idx, lon_idx,
                   timestamps, data, t_idx, month, i, files, stdout>>

PrecomputeIndices ==
    /\ pc = "index"
    /\ lat_idx' = precompute_lat_idx(cities, grid_lats)
    /\ lon_idx' = precompute_lon_idx(cities, grid_lons)
    /\ pc' = "years"
    /\ UNCHANGED <<argv_years, argv_variables, csv, grid_lats, grid_lons, absent,
                   unreadable, unwritable, archive, years, yi, cities,
                   timestamps, data, t_idx, month, i, files, stdout>>

\* for year in years: the call of extract_year, or "All done!"
BeginYear ==
    /\ pc = "years"
    /\ IF yi < Len(years)
       THEN /\ timestamps' = <<>>
            /\ month' = 1
            /\ pc' = "build"
            /\ UNCHANGED stdout
       ELSE /\ stdout' = Append(stdout, [line |-> "All done!", year |-> 0, n |-> 0])
            /\ pc' = "done"
            /\ UNCHANGED <<timestamps, month>>
    /\ UNCHANGED <<argv_years, argv_variables, csv, grid_lats, grid_lons, absent,
                   unreadable, unwritable, archive, years, yi, cities, lat_idx, lon_idx,
                   data, t_idx, i, files>>

\* one month of "Build timestamp index for the year"
BuildMonth ==
    /\ pc = "build"
    /\ timestamps' = timestamps \o MonthTimestamps(year, month)
    /\ month' = month + 1
    /\ pc' = IF month = MonthsPerYear THEN "arrays" ELSE "build"
    /\ UNCHANGED <<argv_years, argv_variables, csv, grid_lats, grid_lons, absent,
                   unreadable, unwritable, archive, years, yi, cities, lat_idx, lon_idx,
                   data, t_idx, i, files, stdout>>

\* n_times, the print of the sizes, "Initialize arrays", t_idx = 0
InitArrays ==
    /\ pc = "arrays"
    /\ stdout' = Append(stdout, [line |-> "timesteps", year |-> year,
                                 n |-> Len(timestamps)])
    /\ data' = [v \in {argv_variables[k] : k \in 1..Len(argv_variables)} |->
                  [t \in 0..(Len(timestamps) - 1) |-> [e \in 1..n_cities |-> 0]]]
    /\ t_idx' = 0
    /\ month' = 1
    /\ pc' = "extract"
    /\ UNCHANGED <<argv_years, argv_variables, csv, grid_lats, grid_lons, absent,
                   unreadable, unwritable, archive, years, yi, cities, lat_idx, lon_idx,
                   timestamps, i, files>>

\* one month of "Extract all data"; an exception leaves main
ExtractMonth ==
    /\ pc = "extract"
    /\ LET r == DayLoop([data |-> data, t_idx |-> t_idx, err |-> FALSE],
                        1, monthrange(year, month))
       IN  /\ data' = r.data
           /\ t_idx' = r.t_idx
           /\ pc' = IF r.err THEN "read_error"
                    ELSE IF month = MonthsPerYear THEN "save" ELSE "extract"
           /\ month' = IF r.err THEN month ELSE month + 1
           /\ i' = IF ~r.err /\ month = MonthsPerYear THEN 0 ELSE i
    /\ UNCHANGED <<argv_years, argv_variables, csv, grid_lats, grid_lons, absent,
                   unreadable, unwritable, archive, years, yi, cities, lat_idx, lon_idx,
                   timestamps, files, stdout>>

\* one city of "Save per-city files"; a failing to_netcdf leaves main
SaveCity ==
    /\ pc = "save"
    /\ i < n_cities
    /\ IF cities[i + 1].ID_UC_G0 \in unwritable
       THEN /\ pc' = "write_error"
            /\ UNCHANGED <<files, i>>
       ELSE /\ files' = files \cup
                  {[year |-> year, city_id |-> cities[i + 1].ID_UC_G0,
                    data_vars |-> {VarName(argv_variables[k]) :
                                      k \in 1..Len(argv_variables)},
                    n_time |-> Len(timestamps)]}
            /\ i' = i + 1
            /\ UNCHANGED pc
    /\ UNCHANGED <<argv_years, argv_variables, csv, grid_lats, grid_lons, absent,
                   unreadable, unwritable, archive, years, yi, cities, lat_idx, lon_idx,
                   timestamps, data, t_idx, month, stdout>>

\* "Done", the return of extract_year and "Year complete"
EndYear ==
    /\ pc = "save"
    /\ i = n_cities
    /\ stdout' = Append(stdout, [line |-> "Year complete", year |-> year, n |-> 0])
    /\ yi' = yi + 1
    /\ pc' = "years"
    /\ UNCHANGED <<argv_years, argv_variables, csv, grid_lats, grid_lons, absent,
                   unreadable, unwritable, archive, years, cities, lat_idx, lon_idx,
                   timestamps, data, t_idx, month, i, files>>

(***************************************************************************)
(* Inputs                                                                  *)
(***************************************************************************)

\* what is typed for --years, with the years it asks for (last < first: none)
Request(first, last) ==
    [arg |-> str(first) \o <<"-">> \o str(last), first |-> first, last |-> last]

Single(y) == [arg |-> str(y), first |-> y, last |-> y]

\* the longest range requested covers MaxSpan + 1 years
MaxSpan == 1

Requests ==
    {Request(a, b) : a, b \in 2023..(2023 + MaxSpan)}
        \cup {Single(1900), Single(2000)}

\* a range with its end missing: int('') raises
BadArgs == {str(2023) \o <<"-">>}

City(id, lat, lon) == [ID_UC_G0 |-> id, city |-> "city", lat |-> lat, lon |-> lon]

\* the grid of the worked example: latitude descending, longitude ascending
GridA == [lats |-> <<10, 0, -10>>, lons |-> <<0, 90, 180, 270>>]

GridB == [lats |-> <<90, 45, 0, -45, -90>>, lons |-> <<0, 60, 120, 180, 240, 300>>]

\* every 2t file of February
Feb2t == [var |-> "2t", month |-> 2, day |-> 0, hour |-> -1]

\* the msl file of 2 January 01:00
HourMsl == [var |-> "msl", month |-> 1, day |-> 2, hour |-> 1]

\* the 2t file of 1 March 01:00
Hour2t == [var |-> "2t", month |-> 3, day |-> 1, hour |-> 1]

MaxCities == 2

InitBatch ==
    /\ argv_years \in {r.arg : r \in Requests} \cup BadArgs
    /\ argv_variables \in {<<"2t">>, <<"msl", "2t">>}
    /\ absent \in SUBSET {Feb2t, HourMsl}
    /\ unreadable \in {{}, {Hour2t}}
    /\ unwritable \in {{}, {1}}
    /\ archive = {}
    /\ csv = [n \in 1..MaxCities |-> City(n, 12 - 10 * n, 100 * n - 110)]
    /\ grid_lats = GridA.lats
    /\ grid_lons = GridA.lons
    /\ years = <<>>
    /\ yi = 0
    /\ cities = <<>>
    /\ lat_idx = <<>>
    /\ lon_idx = <<>>
    /\ timestamps = <<>>
    /\ data = <<>>
    /\ t_idx = 0
    /\ month = 0
    /\ i = 0
    /\ files = {}
    /\ stdout = <<>>
    /\ pc = "main"

NextBatch ==
    \/ ParseYears
    \/ LoadCities
    \/ PrecomputeIndices
    \/ BeginYear
    \/ BuildMonth
    \/ InitArrays
    \/ ExtractMonth
    \/ SaveCity
    \/ EndYear

SpecBatch == InitBatch /\ [][NextBatch]_vars

(***************************************************************************)
(* Index precomputation on its own: load_cities, then precompute_indices   *)
(***************************************************************************)

IdxLats == {20, 5, 2, -10}

IdxLons == {-30, -10, 45, 330, 350}

IdxRows == {City(0, lat, lon) : lat \in IdxLats, lon \in IdxLons}

\* city lists of 1..MaxCities rows, the ids numbered in file order
IdxCsvs ==
    UNION {{[n \in 1..len |-> [rows[n] EXCEPT !.ID_UC_G0 = n]] :
               rows \in [1..len -> IdxRows]} : len \in 1..MaxCities}

InitIdx ==
    /\ argv_years = <<>>
    /\ argv_variables = <<>>
    /\ csv \in IdxCsvs
    /\ \E g \in {GridA, GridB} : grid_lats = g.lats /\ grid_lons = g.lons
    /\ absent = {}
    /\ unreadable = {}
    /\ unwritable = {}
    /\ archive = {}
    /\ years = <<>>
    /\ yi = 0
    /\ cities = <<>>
    /\ lat_idx = <<>>
    /\ lon_idx = <<>>
    /\ timestamps = <<>>
    /\ data = <<>>
    /\ t_idx = 0
    /\ month = 0
    /\ i = 0
    /\ files = {}
    /\ stdout = <<>>
    /\ pc = "load"

NextIdx ==
    \/ LoadCities
    \/ PrecomputeIndices

SpecIdx == InitIdx /\ [][NextIdx]_vars

\* the lowest 0-based index whose grid value is nearest to x
LowestNearest(grid, x) ==
    CHOOSE k \in 0..(Len(grid) - 1) :
        /\ \A j \in 0..(Len(grid) - 1) : abs(grid[k + 1] - x) <= abs(grid[j + 1] - x)
        /\ \A j \in 0..(k - 1) : abs(grid[j + 1] - x) > abs(grid[k + 1] - x)

\* the bijections of 1..n
Perms(n) == {p \in [1..n -> 1..n] : \A a, b \in 1..n : p[a] = p[b] => a = b}

\* C7: the index arrays have one entry per city, in city order; the entry of
\* a city is the lowest index of a nearest grid latitude and the lowest index
\* of a grid longitude nearest to its longitude mod 360; and indexing the
\* same rows in another order gives the same entries in that order.
C7_NearestPerEntity ==
    pc = "years" =>
        /\ Len(lat_idx) = Len(csv) /\ Len(lon_idx) = Len(csv)
        /\ \A n \in 1..Len(csv) :
              /\ lat_idx[n] = LowestNearest(grid_lats, csv[n].lat)
              /\ lon_idx[n] = LowestNearest(grid_lons, csv[n].lon % 360)
        /\ \A p \in Perms(Len(csv)) :
              LET permuted == load_cities([n \in 1..Len(csv) |-> csv[p[n]]])
              IN  /\ precompute_lat_idx(permuted, grid_lats)
                        = [n \in 1..Len(csv) |-> lat_idx[p[n]]]
                  /\ precompute_lon_idx(permuted, grid_lons)
                        = [n \in 1..Len(csv) |-> lon_idx[p[n]]]

\* two cities, the first halfway between two grid latitudes and two grid
\* longitudes (both resolved to the lower index), the second elsewhere
C7_Witness ==
    /\ pc = "years"
    /\ Len(csv) = 2
    /\ grid_lats = GridA.lats
    /\ csv[1].lat = 5 /\ csv[1].lon = 45
    /\ lat_idx[1] = 0 /\ lon_idx[1] = 0
    /\ lat_idx[2] # 0 /\ lon_idx[2] # 0

\* C8: a longitude already in 0..359 is its own normal form, normalizing a
\* normal form changes nothing, and two cities whose longitudes differ by 360
\* get the same normal form and the same column index.
C8_LonNormalization ==
    pc \in {"index", "years"} =>
        /\ \A n \in 1..Len(csv) :
              /\ csv[n].lon \in 0..359 => cities[n].lon_360 = csv[n].lon
              /\ cities[n].lon_360 \in 0..359
              /\ lon_to_360(cities[n].lon_360) = cities[n].lon_360
        /\ \A n, m \in 1..Len(csv) :
              csv[n].lon - csv[m].lon = 360 =>
                  /\ cities[n].lon_360 = cities[m].lon_360
                  /\ pc = "years" => lon_idx[n] = lon_idx[m]

\* -30 and 330 in one list, indexed
C8_Witness ==
    /\ pc = "years"
    /\ Len(csv) = 2
    /\ csv[1].lon = 330 /\ csv[2].lon = -30
    /\ cities[1].lon_360 = 330 /\ cities[2].lon_360 = 330
    /\ lon_idx[1] = lon_idx[2]

\* the latitude of the row lies within the grid's latitudes
InGridBounds(row) == grid_lats[Len(grid_lats)] <= row.lat /\ row.lat <= grid_lats[1]

\* C4 as claimed: the precomputation completes only when every city lies
\* within the grid; a city outside makes it fail instead of returning indices.
C4_OutOfBoundsRejected ==
    pc = "years" => \A n \in 1..Len(csv) : InGridBounds(csv[n])

(***************************************************************************)
(* Region extractor: extract_era5_cities.py                                *)
(***************************************************************************)

\* the (day, hour) order of the sorted day directories and, within a day, of
\* the sorted file names (zero-padded stamps sort as numbers)
NameKey(f) == f.day * 100 + f.hour

RECURSIVE sorted(_)
\* sorted(...) of a set of files of one month and variable
sorted(fs) ==
    IF fs = {} THEN <<>>
    ELSE LET f == CHOOSE x \in fs : \A y \in fs : NameKey(x) <= NameKey(y)
         IN  <<f>> \o sorted(fs \ {f})

\* get_era5_files(year, month, variable)
get_era5_files(y, m, var) ==
    sorted({f \in archive : f.year = y /\ f.month = m /\ f.var = var})

\* positions (0-based) that a label slice(a, b) selects on a monotonic axis:
\* from the first label not before a to the last label not after b, in the
\* direction of the axis
slice_sel(axis, a, b) ==
    LET ascending == Len(axis) < 2 \/ axis[1] <= axis[Len(axis)]
        left == Cardinality({k \in 1..Len(axis) :
                                IF ascending THEN axis[k] < a ELSE axis[k] > a})
        right == Cardinality({k \in 1..Len(axis) :
                                 IF ascending THEN axis[k] <= b ELSE axis[k] >= b})
    IN  [j \in 1..(IF right > left THEN right - left ELSE 0) |-> left + j - 1]

\* ds.sel(latitude=slice(max_lat, min_lat), longitude=slice(min_lon, max_lon))
\* of the file f, with the longitudes already converted by lon_to_360
select_box(f, city) ==
    [time |-> datetime(f.year, f.month, f.day, f.hour),
     var |-> VarName(f.var),
     rows |-> slice_sel(grid_lats, city.max_lat, city.min_lat),
     cols |-> slice_sel(grid_lons, lon_to_360(city.min_lon), lon_to_360(city.max_lon))]

\* "for f in files": the fragments of one (year, month, variable), in file
\* order; raised when a file cannot be opened
read_files(fs, city) ==
    [raised |-> \E k \in 1..Len(fs) : raises(fs[k].var, fs[k].month, fs[k].day, fs[k].hour),
     datasets |-> [k \in 1..Len(fs) |-> select_box(fs[k], city)]]

RECURSIVE region_loop(_, _, _)
\* for year in years: for month in range(1, 13): for var in variables,
\* flattened: step n visits year n \div (12 V), month (n \div V) % 12, var n % V
region_loop(acc, n, city) ==
    IF acc.raised \/ n >= Len(years) * MonthsPerYear * Len(argv_variables) THEN acc
    ELSE LET V == Len(argv_variables)
             r == read_files(get_era5_files(years[(n \div (MonthsPerYear * V)) + 1],
                                            ((n \div V) % MonthsPerYear) + 1,
                                            argv_variables[(n % V) + 1]), city)
         IN  region_loop([raised |-> r.raised, datasets |-> acc.datasets \o r.datasets],
                         n + 1, city)

\* xr.concat(datasets, dim="time"): the fragments' times in list order. When
\* the fragments do not all hold the same variable the installed xarray
\* either fills the missing ones (lenient) or raises.
concat(datasets, lenient) ==
    [raised |-> ~lenient /\ \E a, b \in 1..Len(datasets) : datasets[a].var # datasets[b].var,
     time |-> [k \in 1..Len(datasets) |-> datasets[k].time],
     data_vars |-> {datasets[k].var : k \in 1..Len(datasets)},
     rows |-> datasets[1].rows,
     cols |-> datasets[1].cols]

\* extract_city_data(city_row, years, variables, output_dir): raised, or
\* the artifact written (none when no file was found)
extract_city_data(city, lenient) ==
    LET got == region_loop([raised |-> FALSE, datasets |-> <<>>], 0, city)
    IN  IF got.raised THEN [raised |-> TRUE, written |-> {}]
        ELSE IF got.datasets = <<>> THEN [raised |-> FALSE, written |-> {}]
        ELSE LET combined == concat(got.datasets, lenient)
             IN  IF combined.raised \/ city.ID_UC_G0 \in unwritable
                 THEN [raised |-> TRUE, written |-> {}]
                 ELSE [raised |-> FALSE,
                       written |-> {[city_id |-> city.ID_UC_G0, time |-> combined.time,
                                     data_vars |-> combined.data_vars,
                                     rows |-> combined.rows, cols |-> combined.cols]}]

\* main of the region extractor: "Parse years"
RegionParseYears ==
    /\ pc = "region_main"
    /\ LET r == parse_years(argv_years)
       IN  /\ years' = r.years
           /\ pc' = IF r.err THEN "ValueError" ELSE "region_load"
    /\ UNCHANGED <<argv_years, argv_variables, csv, grid_lats, grid_lons, absent,
                   unreadable, unwritable, archive, yi, cities, lat_idx, lon_idx,
                   timestamps, data, t_idx, month, i, files, stdout>>

\* load_city_list
LoadCityList ==
    /\ pc = "region_load"
    /\ cities' = csv
    /\ i' = 0
    /\ pc' = "region_cities"
    /\ UNCHANGED <<argv_years, argv_variables, csv, grid_lats, grid_lons, absent,
                   unreadable, unwritable, archive, years, yi, lat_idx, lon_idx,
                   timestamps, data, t_idx, month, files, stdout>>

\* one turn of "for idx, city in cities.iterrows()": try extract_city_data,
\* except Exception: print the error and continue
ExtractCity ==
    /\ pc = "region_cities"
    /\ i < Len(cities)
    /\ \E lenient \in BOOLEAN :
          LET r == extract_city_data(cities[i + 1], lenient)
          IN  /\ files' = {f \in files : r.written = {} \/ f.city_id # cities[i + 1].ID_UC_G0}
                              \cup r.written
              /\ stdout' = IF r.raised
                           THEN Append(stdout, [line |-> "Error", year |-> 0, n |-> 0])
                           ELSE stdout
    /\ i' = i + 1
    /\ UNCHANGED <<argv_years, argv_variables, csv, grid_lats, grid_lons, absent,
                   unreadable, unwritable, archive, years, yi, cities, lat_idx,
                   lon_idx, timestamps, data, t_idx, month, pc>>

\* the city loop has run out
RegionDone ==
    /\ pc = "region_cities"
    /\ i = Len(cities)
    /\ pc' = "done"
    /\ UNCHANGED <<argv_years, argv_variables, csv, grid_lats, grid_lons, absent,
                   unreadable, unwritable, archive, years, yi, cities, lat_idx,
                   lon_idx, timestamps, data, t_idx, month, i, files, stdout>>

File(y, m, d, h, var) == [year |-> y, month |-> m, day |-> d, hour |-> h, var |-> var]

\* the files an archive of the model may hold
ArchiveFiles ==
    {File(2023, 1, 1, 0, "2t"), File(2023, 1, 2, 0, "2t"), File(2023, 2, 1, 1, "2t"),
     File(2024, 1, 1, 0, "2t"), File(2023, 1, 1, 0, "2d")}

Box(id, min_lat, max_lat, min_lon, max_lon) ==
    [ID_UC_G0 |-> id, city |-> "city", min_lat |-> min_lat, max_lat |-> max_lat,
     min_lon |-> min_lon, max_lon |-> max_lon]

\* bounding boxes in the -180..180 convention: around (0, 90), over the
\* 0 meridian, and in the western hemisphere
Boxes == {Box(0, -5, 5, 80, 100), Box(0, -10, 10, -10, 10), Box(0, -10, 0, -100, -80)}

RegionCsvs ==
    UNION {{[n \in 1..len |-> [rows[n] EXCEPT !.ID_UC_G0 = n]] :
               rows \in [1..len -> Boxes]} : len \in 1..MaxCities}

InitRegion ==
    /\ argv_years \in {Single(2023).arg, Request(2023, 2024).arg}
    /\ argv_variables \in {<<"2t">>, <<"2t", "2d">>}
    /\ csv \in RegionCsvs
    /\ grid_lats = GridA.lats
    /\ grid_lons = GridA.lons
    /\ absent = {}
    /\ unreadable \in {{}, {[var |-> "2t", month |-> 2, day |-> 1, hour |-> 1]}}
    /\ unwritable \in {{}, {1}}
    /\ archive \in SUBSET ArchiveFiles
    /\ years = <<>>
    /\ yi = 0
    /\ cities = <<>>
    /\ lat_idx = <<>>
    /\ lon_idx = <<>>
    /\ timestamps = <<>>
    /\ data = <<>>
    /\ t_idx = 0
    /\ month = 0
    /\ i = 0
    /\ files = {}
    /\ stdout = <<>>
    /\ pc = "region_main"

NextRegion ==
    \/ RegionParseYears
    \/ LoadCityList
    \/ ExtractCity
    \/ RegionDone

SpecRegion == InitRegion /\ [][NextRegion]_vars

\* timestamps in calendar order
NotAfter(a, b) ==
    \/ a[1] < b[1]
    \/ a[1] = b[1] /\ a[2] < b[2]
    \/ a[1] = b[1] /\ a[2] = b[2] /\ a[3] < b[3]
    \/ a[1] = b[1] /\ a[2] = b[2] /\ a[3] = b[3] /\ a[4] <= b[4]

\* C3 as claimed, for region mode: the time axis of every artifact written is
\* in non-decreasing calendar order.
C3_ChronologicalOutput ==
    \A f \in files : \A k \in 1..(Len(f.time) - 1) : NotAfter(f.time[k], f.time[k + 1])

\* a grid longitude in the -180..180 convention
Signed(lon) == IF lon > 180 THEN lon - 360 ELSE lon

\* C9 as claimed: for a box with min <= max on both axes the rows and columns
\* of the artifact are not empty and hold every grid point inside the box.
C9_BoxCovered ==
    \A f \in files : \A n \in 1..Len(cities) :
        (cities[n].ID_UC_G0 = f.city_id
            /\ cities[n].min_lat <= cities[n].max_lat
            /\ cities[n].min_lon <= cities[n].max_lon)
        => /\ f.rows # <<>> /\ f.cols # <<>>
           /\ \A k \in 1..Len(grid_lons) :
                 (cities[n].min_lon <= Signed(grid_lons[k])
                     /\ Signed(grid_lons[k]) <= cities[n].max_lon)
                 => \E j \in 1..Len(f.cols) : f.cols[j] = k - 1

(***************************************************************************)
(* Properties of the batch extractor                                       *)
(***************************************************************************)

\* the Gregorian rule, stated on its own
GregorianLeap(y) == (y % 400 = 0) \/ (y % 4 = 0 /\ y % 100 # 0)

HoursInYear(y) == (IF GregorianLeap(y) THEN 366 ELSE 365) * HoursPerDay

\* days of the year before month m, from the cumulative table
DaysBefore(y, m) ==
    <<0, 31, 59, 90, 120, 151, 181, 212, 243, 273, 304, 334>>[m]
        + (IF m > 2 /\ GregorianLeap(y) THEN 1 ELSE 0)

\* hours from the start of its year to the timestamp ts
HourOfYear(ts) == (DaysBefore(ts[1], ts[2]) + ts[3] - 1) * HoursPerDay + ts[4]

IsHourOfYear(y, ts) ==
    /\ ts[1] = y
    /\ ts[2] \in 1..12
    /\ ts[3] >= 1
    /\ DaysBefore(y, ts[2]) + ts[3] <= (IF ts[2] = 12 THEN HoursInYear(y) \div HoursPerDay
                                        ELSE DaysBefore(y, ts[2] + 1))
    /\ ts[4] \in 0..(HoursPerDay - 1)

RECURSIVE SumTimesteps(_)
\* the total of the sizes printed for the years processed
SumTimesteps(out) ==
    IF out = <<>> THEN 0
    ELSE (IF Head(out).line = "timesteps" THEN Head(out).n ELSE 0)
            + SumTimesteps(Tail(out))

RECURSIVE SumHours(_, _)
SumHours(first, last) ==
    IF first > last THEN 0 ELSE HoursInYear(first) + SumHours(first + 1, last)

InYear == pc \in {"build", "arrays", "extract", "save", "read_error", "write_error"}

\* C2: the time axis built for a year holds the hours of that year, and only
\* them, in increasing order without a repeat or a gap (element k is hour
\* k - 1 of the year); once built it has HoursPerDay elements for each of
\* the 366 or 365 days; and
\* when a request for the years first..last has been served the axes built
\* have, together, the sum of these lengths. No condition on the archive.
C2_TimeAxis ==
    /\ InYear =>
          /\ \A k \in 1..Len(timestamps) :
                 IsHourOfYear(year, timestamps[k]) /\ HourOfYear(timestamps[k]) = k - 1
          /\ pc # "build" => Len(timestamps) = HoursInYear(year)
    /\ pc = "done" =>
          \E r \in Requests :
              /\ r.arg = argv_years
              /\ years = [k \in 1..Len(years) |-> r.first + k - 1]
              /\ Len(years) = (IF r.last >= r.first THEN r.last - r.first + 1 ELSE 0)
              /\ SumTimesteps(stdout) = SumHours(r.first, r.last)

\* a two-year range, one of them a leap year, served over an archive with gaps
C2_Witness ==
    /\ pc = "done"
    /\ Len(years) = 2
    /\ absent # {}
    /\ SumTimesteps(stdout) = (365 + 366) * HoursPerDay

\* the file of variable v for the timestamp of row t exists
RowFileExists(v, t) ==
    exists(v, timestamps[t + 1][2], timestamps[t + 1][3], timestamps[t + 1][4])

\* C1: after the extraction loop of a year, every cell of a (variable,
\* timestamp) whose file does not exist holds NaN for every city, every cell
\* of a pair whose file exists holds a value and not the fill, and absent
\* files alone never make the loop raise.
C1_MissingFilled ==
    /\ pc = "save" =>
          \A v \in DOMAIN data : \A t \in 0..(n_times - 1) : \A e \in 1..n_cities :
              IF RowFileExists(v, t) THEN data[v][t][e] # NaN
              ELSE data[v][t][e] = NaN
    /\ unreadable = {} => pc # "read_error"

\* at 2 January 01:00 the msl file is missing and the 2t file is there
C1_Witness ==
    /\ pc = "save"
    /\ DOMAIN data = {"msl", "2t"}
    /\ ~RowFileExists("msl", HoursPerDay + 1)
    /\ RowFileExists("2t", HoursPerDay + 1)
    /\ \A e \in 1..n_cities :
          data["msl"][HoursPerDay + 1][e] = NaN /\ data["2t"][HoursPerDay + 1][e] > 0
    /\ \E t \in 0..(n_times - 1) : ~RowFileExists("2t", t)

\* the value the file of variable v for the timestamp of row t holds at the
\* grid cell of city e
RowFileValue(v, t, e) ==
    FileField(v, year, timestamps[t + 1][2], timestamps[t + 1][3],
              timestamps[t + 1][4], lat_idx[e], lon_idx[e])

\* the rows written since the last step (all rows after the loop)
RecentRows ==
    (IF pc = "save" \/ t_idx < 31 * HoursPerDay THEN 0 ELSE t_idx - 31 * HoursPerDay)..(t_idx - 1)

\* C10: between months and after the loop t_idx is the position in timestamps
\* of the next hour to visit (the number of timestamps after the loop); the
\* rows below t_idx hold, for every variable, what belongs to the timestamp
\* at that position (the value of its file, or NaN when it is missing), and
\* the row at t_idx is still unwritten: no row is shifted or skipped.
C10_RowsAligned ==
    pc \in {"extract", "save"} =>
        /\ t_idx = (IF pc = "save" THEN n_times ELSE DaysBefore(year, month) * HoursPerDay)
        /\ t_idx < n_times => timestamps[t_idx + 1] = datetime(year, month, 1, 0)
        /\ \A v \in DOMAIN data :
              /\ t_idx < n_times => \A e \in 1..n_cities : data[v][t_idx][e] = 0
              /\ \A t \in RecentRows : \A e \in 1..n_cities :
                    data[v][t][e] = (IF RowFileExists(v, t) THEN RowFileValue(v, t, e)
                                     ELSE NaN)

\* a year extracted to its end with two variables and gaps in both
C10_Witness ==
    /\ pc = "save"
    /\ t_idx = n_times
    /\ Len(argv_variables) = 2
    /\ \A v \in DOMAIN data : \E t \in 0..(n_times - 1) : ~RowFileExists(v, t)

\* C5 as claimed: when the run has ended, every city whose artifact can be
\* written has its artifact for the year that was being processed.
C5_LaterEntitiesWritten ==
    pc = "write_error" =>
        \A n \in 1..n_cities :
            cities[n].ID_UC_G0 \notin unwritable =>
                \E f \in files : f.year = year /\ f.city_id = cities[n].ID_UC_G0

\* C6 as claimed: a read failure on a file that exists does not end the run.
C6_ReadFailureContinues == pc # "read_error"

====
